---- MODULE Spec2Model ----
(***************************************************************************)
(* The binascii module of RustPython (vm/src/stdlib/binascii.rs): the      *)
(* input layer SerializedData, the hex codec, the CRC-32 checksum and the  *)
(* base64 codec, with one action per entry point of make_module.           *)
(*                                                                         *)
(* A caller value is [type, data]: type is the class name of the object,   *)
(* data its bytes (bytes, bytearray) or its code points (str).  A u32 is   *)
(* the pair <<high 16 bits, low 16 bits>>.                                 *)
(*                                                                         *)
(* PyBytesLike (crate::obj::objbyteinner) and the crates crc and base64    *)
(* are not part of binascii.rs; they are modelled by their contracts.      *)
(*                                                                         *)
(* The state is the call the caller last made:                             *)
(*   fn      the name it was made under ("none": no call is held)          *)
(*   arg     the caller value given, seed the OptionalArg<u32> of crc32    *)
(*   view    the byte slice handed to the function's closure, if it ran    *)
(*   calls   the arguments of the hex_nibble calls made, in order          *)
(*   result  what the call returned                                        *)
(*   prev    when the argument or the seed was taken from the result of    *)
(*           the call before: that call's function, the bytes checksummed  *)
(*           or encoded so far, the first seed, the number of calls        *)
(***************************************************************************)
EXTENDS Integers, Sequences, FiniteSets, TLC

VARIABLES fn, arg, seed, view, calls, result, prev

vars == <<fn, arg, seed, view, calls, result, prev>>

-----------------------------------------------------------------------------
(* Bounds of the model. *)

\* longest sequence drawn over Alphabet
MaxLen == 2
\* longest sequence drawn over CrcAlphabet
MaxCrcLen == 2
\* most crc32 calls chained after a first one
MaxChain == 1

-----------------------------------------------------------------------------
(* Values and bit operations. *)

Byte == 0..255

BoundedSeq(S, n) == UNION {[1..k -> S] : k \in 0..n}

Min(a, b) == IF a < b THEN a ELSE b

\* bitwise exclusive or and bitwise or of two naturals of 1, 2, 4, 8 and 16 bits
Xor1(a, b) == (a + b) % 2

Xor2(a, b) == Xor1(a % 2, b % 2) + 2 * Xor1(a \div 2, b \div 2)

Xor4(a, b) == Xor2(a % 4, b % 4) + 4 * Xor2(a \div 4, b \div 4)

Xor8(a, b) == Xor4(a % 16, b % 16) + 16 * Xor4(a \div 16, b \div 16)

Xor16(a, b) == Xor8(a % 256, b % 256) + 256 * Xor8(a \div 256, b \div 256)

Or1(a, b) == IF a + b > 0 THEN 1 ELSE 0

Or2(a, b) == Or1(a % 2, b % 2) + 2 * Or1(a \div 2, b \div 2)

Or4(a, b) == Or2(a % 4, b % 4) + 4 * Or2(a \div 4, b \div 4)

Or8(a, b) == Or4(a % 16, b % 16) + 16 * Or4(a \div 16, b \div 16)

Ok(v) == [tag |-> "Ok", val |-> v]

Err(exc, msg) == [tag |-> "Err", exc |-> exc, msg |-> msg]

\* the view of a call in which no closure of with_ref ran
NoView == [ran |-> FALSE, kind |-> "none", bytes |-> <<>>]

\* the view of a call whose closure ran on the slice of a value of that kind
Viewed(kind, bytes) == [ran |-> TRUE, kind |-> kind, bytes |-> bytes]

NoResult == [tag |-> "None"]

\* OptionalArg::Missing
Missing == <<>>

NoPrev == [fn |-> "none", bytes |-> <<>>, seed |-> Missing, n |-> 0]

-----------------------------------------------------------------------------
(* SerializedData: the classification of a caller value. *)

is_ascii(s) == \A i \in 1..Len(s) : s[i] <= 127

\* try_from_object without the is_ascii test
try_from_object_unchecked(obj) ==
  CASE obj.type = "bytes" -> Ok([kind |-> "Bytes", obj |-> obj])
    [] obj.type = "bytearray" -> Ok([kind |-> "Buffer", obj |-> obj])
    [] obj.type = "str" -> Ok([kind |-> "Ascii", obj |-> obj])
    [] OTHER -> Err("TypeError",
                    <<"argument should be bytes, buffer or ASCII string, not '{}'",
                      obj.type>>)

\* try_from_object raising the type error for a non-ASCII text
try_from_object_type_error(obj) ==
  CASE obj.type = "bytes" -> Ok([kind |-> "Bytes", obj |-> obj])
    [] obj.type = "bytearray" -> Ok([kind |-> "Buffer", obj |-> obj])
    [] obj.type = "str" /\ is_ascii(obj.data) -> Ok([kind |-> "Ascii", obj |-> obj])
    [] OTHER -> Err("TypeError",
                    <<"argument should be bytes, buffer or ASCII string, not '{}'",
                      obj.type>>)

\* try_from_object without the PyString arm
try_from_object_no_text(obj) ==
  CASE obj.type = "bytes" -> Ok([kind |-> "Bytes", obj |-> obj])
    [] obj.type = "bytearray" -> Ok([kind |-> "Buffer", obj |-> obj])
    [] OTHER -> Err("TypeError",
                    <<"argument should be bytes, buffer or ASCII string, not '{}'",
                      obj.type>>)

try_from_object(obj) ==
  CASE obj.type = "bytes" -> Ok([kind |-> "Bytes", obj |-> obj])
    [] obj.type = "bytearray" -> Ok([kind |-> "Buffer", obj |-> obj])
    [] obj.type = "str" ->
         IF is_ascii(obj.data)
         THEN Ok([kind |-> "Ascii", obj |-> obj])
         ELSE Err("ValueError",
                  <<"string argument should contain only ASCII characters">>)
    [] OTHER -> Err("TypeError",
                    <<"argument should be bytes, buffer or ASCII string, not '{}'",
                      obj.type>>)

\* the UTF-8 encoding of a code point below 0x800
utf8(c) == IF c <= 127 THEN <<c>> ELSE <<192 + (c \div 64), 128 + (c % 64)>>

\* str::as_bytes
RECURSIVE as_bytes(_)
as_bytes(s) == IF s = <<>> THEN <<>> ELSE utf8(Head(s)) \o as_bytes(Tail(s))

\* the byte slice with_ref hands to its closure
with_ref(d) ==
  CASE d.kind = "Bytes" -> d.obj.data
    [] d.kind = "Buffer" -> d.obj.data
    [] OTHER -> as_bytes(d.obj.data)

\* PyBytesLike (crate::obj::objbyteinner): bytes or bytearray, nothing else
bytes_like_try_from_object(obj) ==
  CASE obj.type = "bytes" -> Ok([kind |-> "Bytes", obj |-> obj])
    [] obj.type = "bytearray" -> Ok([kind |-> "Buffer", obj |-> obj])
    [] OTHER -> Err("TypeError",
                    <<"a bytes-like object is required, not '{}'", obj.type>>)

-----------------------------------------------------------------------------
(* The hex codec. *)

\* u8 addition: the sum, and whether it left the range of u8
U8Add(a, b) == [val |-> (a + b) % 256, overflow |-> a + b > 255]

\* b'0' + n and b'a' + n; the third arm is unreachable!()
hex_nibble(n) ==
  CASE n \in 0..9 -> [tag |-> "Ok", add |-> U8Add(48, n)]
    [] n \in 10..15 -> [tag |-> "Ok", add |-> U8Add(97, n)]
    [] OTHER -> [tag |-> "Unreachable", add |-> U8Add(0, 0)]

\* the arguments with the high nibble not shifted down
hexlify_nibbles_no_shift(b) == <<b, b % 16>>

\* the arguments binascii_hexlify passes to hex_nibble for byte b, in order
hexlify_nibbles(b) == <<b \div 16, b % 16>>

\* the run of binascii_hexlify's closure on a byte slice: the arguments of
\* every hex_nibble call it makes, what each call returned, and the vector
\* it builds
hexlify_calls(bytes) ==
  [i \in 1..(2 * Len(bytes)) |->
     hexlify_nibbles(bytes[(i + 1) \div 2])[2 - (i % 2)]]

\* a call that reaches unreachable!() panics; an addition that overflows
\* panics in a debug build and wraps in a release build
binascii_hexlify(bytes) ==
  LET args == hexlify_calls(bytes)
      rets == [i \in 1..Len(args) |-> hex_nibble(args[i])]
  IN  IF \E i \in 1..Len(rets) : rets[i].tag = "Unreachable"
      THEN [tag |-> "Panic", msg |-> "internal error: entered unreachable code"]
      ELSE IF \E i \in 1..Len(rets) : rets[i].add.overflow
      THEN [tag |-> "Overflow", val |-> [i \in 1..Len(rets) |-> rets[i].add.val]]
      ELSE Ok([i \in 1..Len(rets) |-> rets[i].add.val])

\* unhex_nibble without the upper-case arm
unhex_nibble_lower(c) ==
  CASE c \in 48..57 -> Ok(c - 48)
    [] c \in 97..102 -> Ok(c - 97 + 10)
    [] OTHER -> [tag |-> "None"]

unhex_nibble(c) ==
  CASE c \in 48..57 -> Ok(c - 48)
    [] c \in 97..102 -> Ok(c - 97 + 10)
    [] c \in 65..70 -> Ok(c - 65 + 10)
    [] OTHER -> [tag |-> "None"]

\* one tuple of hex_bytes.iter().tuples(): the byte it decodes to
unhex_pair(c1, c2) ==
  LET n1 == unhex_nibble(c1)
      n2 == unhex_nibble(c2)
  IN  IF n1.tag = "Ok" /\ n2.tag = "Ok"
      THEN Ok(Or8((n1.val * 16) % 256, n2.val))
      ELSE [tag |-> "None"]

\* binascii_unhexlify without the length test: tuples() drops a last odd byte
binascii_unhexlify_no_length_test(hex_bytes) ==
  LET pairs == [i \in 1..(Len(hex_bytes) \div 2) |->
                  unhex_pair(hex_bytes[2 * i - 1], hex_bytes[2 * i])]
  IN  IF \E i \in 1..Len(pairs) : pairs[i].tag # "Ok"
      THEN Err("ValueError", <<"Non-hexadecimal digit found">>)
      ELSE Ok([i \in 1..Len(pairs) |-> pairs[i].val])

binascii_unhexlify(hex_bytes) ==
  IF Len(hex_bytes) % 2 # 0
  THEN Err("ValueError", <<"Odd-length string">>)
  ELSE LET pairs == [i \in 1..(Len(hex_bytes) \div 2) |->
                       unhex_pair(hex_bytes[2 * i - 1], hex_bytes[2 * i])]
       IN  IF \E i \in 1..Len(pairs) : pairs[i].tag # "Ok"
           THEN Err("ValueError", <<"Non-hexadecimal digit found">>)
           ELSE Ok([i \in 1..Len(pairs) |-> pairs[i].val])

-----------------------------------------------------------------------------
(* CRC-32 as the crc crate computes it (crc32::Digest over crc32::IEEE). *)

U32(hi, lo) == <<hi, lo>>

Xor32(a, b) == U32(Xor16(a[1], b[1]), Xor16(a[2], b[2]))

Not32(a) == U32(65535 - a[1], 65535 - a[2])

\* a >> 1 and a >> 8
Shr32_1(a) == U32(a[1] \div 2, (a[2] \div 2) + (a[1] % 2) * 32768)

Shr32_8(a) == U32(a[1] \div 256, (a[2] \div 256) + (a[1] % 256) * 256)

\* crc32::IEEE, 0xEDB88320
IEEE == U32(60856, 33568)

\* one round of make_table's inner loop
table_round(value, poly) ==
  IF value[2] % 2 = 1 THEN Xor32(Shr32_1(value), poly) ELSE Shr32_1(value)

\* the value after k rounds, each round evaluated before the next
RECURSIVE table_entry(_, _, _)
table_entry(value, poly, k) ==
  IF k = 0 THEN value
  ELSE CHOOSE next \in {table_round(v, poly) : v \in {table_entry(value, poly, k - 1)}} :
         TRUE

make_table(poly) == [i \in 0..255 |-> table_entry(U32(0, i), poly, 8)]

IEEE_TABLE == make_table(IEEE)

\* one step of update's loop: the register after byte b
update_step(value, table, b) ==
  Xor32(table[Xor8(value[2] % 256, b)], Shr32_8(value))

\* the register after the first i bytes, each step evaluated before the next
RECURSIVE update_loop(_, _, _, _)
update_loop(value, table, bytes, i) ==
  IF i = 0 THEN value
  ELSE CHOOSE next \in {update_step(v, table, bytes[i]) :
                          v \in {update_loop(value, table, bytes, i - 1)}} : TRUE

\* crc32::update: complement, one table step per byte, complement
update(value, table, bytes) == Not32(update_loop(Not32(value), table, bytes, Len(bytes)))

\* Digest::new_with_initial, Hasher32::write, Hasher32::sum32
digest_new_with_initial(table, initial) == [table |-> table, initial |-> initial, value |-> initial]

digest_write(digest, bytes) ==
  [digest EXCEPT !.value = update(digest.value, digest.table, bytes)]

digest_sum32(digest) == digest.value

\* binascii_crc32 with the digest always started at 0
binascii_crc32_no_seed(bytes, value) ==
  Ok(digest_sum32(digest_write(digest_new_with_initial(IEEE_TABLE, U32(0, 0)), bytes)))

binascii_crc32(bytes, value) ==
  LET crc == IF value = Missing THEN U32(0, 0) ELSE value
      digest == digest_new_with_initial(IEEE_TABLE, crc)
  IN  Ok(digest_sum32(digest_write(digest, bytes)))

-----------------------------------------------------------------------------
(* Base64 as the base64 crate computes it (standard alphabet, padded). *)

\* the standard alphabet: the character of a 6-bit value
encode_table(v) ==
  CASE v \in 0..25 -> 65 + v
    [] v \in 26..51 -> 97 + (v - 26)
    [] v \in 52..61 -> 48 + (v - 52)
    [] v = 62 -> 43
    [] OTHER -> 47

\* the 6-bit value of a character of the standard alphabet, or INVALID_VALUE
decode_table(c) ==
  CASE c \in 65..90 -> c - 65
    [] c \in 97..122 -> c - 97 + 26
    [] c \in 48..57 -> c - 48 + 52
    [] c = 43 -> 62
    [] c = 47 -> 63
    [] OTHER -> 255

\* the four characters of the group of up to three bytes that starts at byte g
encode_group(bytes, g) ==
  LET n == Min(3, Len(bytes) - g + 1)
      b1 == bytes[g]
      b2 == IF n >= 2 THEN bytes[g + 1] ELSE 0
      b3 == IF n >= 3 THEN bytes[g + 2] ELSE 0
  IN  << encode_table(b1 \div 4),
         encode_table((b1 % 4) * 16 + b2 \div 16),
         IF n >= 2 THEN encode_table((b2 % 16) * 4 + b3 \div 64) ELSE 61,
         IF n >= 3 THEN encode_table(b3 % 64) ELSE 61 >>

base64_encode(bytes) ==
  [i \in 1..(4 * ((Len(bytes) + 2) \div 3)) |->
     encode_group(bytes, 3 * ((i - 1) \div 4) + 1)[((i - 1) % 4) + 1]]

\* where the decoder's last chunk (of at most 8 characters) starts, 0-based
start_of_leftovers(input) ==
  IF Len(input) % 8 = 0 THEN Len(input) - Min(8, Len(input))
  ELSE Len(input) - (Len(input) % 8)

\* the error character i (0-based) raises, if any: in the chunks before the
\* last one any character outside the alphabet; in the last chunk also
\* misplaced padding
decode_error_at(input, i) ==
  LET start == start_of_leftovers(input)
      b == input[i + 1]
      pads == {j \in start..(i - 1) : input[j + 1] = 61}
      first_padding == CHOOSE j \in pads : \A k \in pads : j <= k
  IN  IF i < start
      THEN IF decode_table(b) = 255 THEN <<"InvalidByte", i, b>> ELSE <<>>
      ELSE IF b = 61
      THEN IF (i - start) % 4 < 2
           THEN <<"InvalidByte", IF pads # {} THEN first_padding ELSE i, b>>
           ELSE <<>>
      ELSE IF pads # {} THEN <<"InvalidByte", first_padding, 61>>
      ELSE IF decode_table(b) = 255 THEN <<"InvalidByte", i, b>>
      ELSE <<>>

\* the byte k (1-based) of the bit stream of a sequence of 6-bit values
decode_byte(m, k) ==
  LET g == 4 * ((k - 1) \div 3)
      r == (k - 1) % 3
  IN  CASE r = 0 -> m[g + 1] * 4 + m[g + 2] \div 16
        [] r = 1 -> (m[g + 2] % 16) * 16 + m[g + 3] \div 4
        [] OTHER -> (m[g + 3] % 4) * 64 + m[g + 4]

base64_decode(input) ==
  LET bad == {i \in 0..(Len(input) - 1) : decode_error_at(input, i) # <<>>}
      first == CHOOSE i \in bad : \A j \in bad : i <= j
      symbols == SelectSeq(input, LAMBDA c : c # 61)
      m == [i \in 1..Len(symbols) |-> decode_table(symbols[i])]
      trailing == CASE Len(m) % 4 = 2 -> m[Len(m)] % 16
                    [] Len(m) % 4 = 3 -> m[Len(m)] % 4
                    [] OTHER -> 0
  IN  IF Len(input) % 4 = 1 THEN [tag |-> "Err", err |-> <<"InvalidLength">>]
      ELSE IF bad # {} THEN [tag |-> "Err", err |-> decode_error_at(input, first)]
      ELSE IF trailing # 0
      THEN [tag |-> "Err", err |-> <<"InvalidLastSymbol", Len(m) - 1, symbols[Len(m)]>>]
      ELSE Ok([k \in 1..((Len(m) * 6) \div 8) |-> decode_byte(m, k)])

binascii_a2b_base64(bytes) ==
  LET r == base64_decode(bytes)
  IN  IF r.tag = "Ok" THEN r
      ELSE Err("ValueError", <<"error decoding base64: {}">> \o r.err)

\* binascii_b2a_base64 ending its output with a newline
binascii_b2a_base64_newline(b) == Ok(base64_encode(b) \o <<10>>)

binascii_b2a_base64(b) == Ok(base64_encode(b))

-----------------------------------------------------------------------------
(* The inputs the calls are drawn from. *)

Alphabet == {0, 47, 48, 57, 61, 65, 70, 97, 102, 255}

CrcAlphabet == {49, 255}

\* "123456789", "Man", "00ff", "00FF", "zz", "00zz", "00z" and four bytes
Samples ==
  { <<49, 50, 51, 52, 53, 54, 55, 56, 57>>, <<77, 97, 110>>, <<48, 48, 102, 102>>,
    <<48, 48, 70, 70>>, <<122, 122>>, <<48, 48, 122, 122>>, <<48, 48, 122>>,
    <<0, 16, 131, 16>> }

\* every byte alone, and every byte on either side of a '0'
Singles == {<<b>> : b \in Byte}

Pairs == {<<b, 48>> : b \in Byte} \cup {<<48, b>> : b \in Byte}

Data == BoundedSeq(Alphabet, MaxLen) \cup Singles \cup Pairs \cup Samples

CrcData == BoundedSeq(CrcAlphabet, MaxCrcLen) \cup {<<49, 50, 51, 52, 53, 54, 55, 56, 57>>}

\* the caller values over a set of contents: bytes, bytearray and str objects,
\* and an object of another class
Objects(D) ==
  {[type |-> t, data |-> d] : t \in {"bytes", "bytearray", "str"}, d \in D}
    \cup {[type |-> "int", data |-> <<>>]}

Args == Objects(Data)

CrcArgs == Objects(CrcData)

\* a value returned to the caller as a bytes object
BytesObj(v) == [type |-> "bytes", data |-> v]

Seeds == {Missing, U32(0, 0), U32(0, 1), U32(65535, 65535)}

-----------------------------------------------------------------------------
(* The module: make_module's table and one action per function. *)

make_module ==
  [hexlify |-> "binascii_hexlify", b2a_hex |-> "binascii_hexlify",
   unhexlify |-> "binascii_unhexlify", a2b_hex |-> "binascii_unhexlify",
   crc32 |-> "binascii_crc32", a2b_base64 |-> "binascii_a2b_base64",
   b2a_base64 |-> "binascii_b2a_base64"]

Entries(f) == {name \in DOMAIN make_module : make_module[name] = f}

Init ==
  /\ fn = "none"
  /\ arg = [type |-> "none", data |-> <<>>]
  /\ seed = Missing
  /\ view = NoView
  /\ calls = <<>>
  /\ result = NoResult
  /\ prev = NoPrev

\* no call is in progress and no result is held
Idle == fn = "none"

\* the caller holds what one of the entries of function f returned
Returned(f) == fn \in Entries(f) /\ result.tag = "Ok"

\* hexlify, b2a_hex: the argument is a PyBytesLike
Hexlify ==
  \E name \in Entries("binascii_hexlify"), obj \in IF Idle THEN Args ELSE {} :
    LET data == bytes_like_try_from_object(obj)
    IN  /\ fn' = name
        /\ arg' = obj
        /\ seed' = Missing
        /\ prev' = NoPrev
        /\ IF data.tag = "Err"
           THEN view' = NoView /\ calls' = <<>> /\ result' = data
           ELSE /\ view' = Viewed(data.val.kind, with_ref(data.val))
                /\ calls' = hexlify_calls(with_ref(data.val))
                /\ result' = binascii_hexlify(with_ref(data.val))

\* unhexlify, a2b_hex: the argument is a SerializedData, a fresh value or the
\* bytes the previous hexlify returned
Unhexlify ==
  \E name \in Entries("binascii_unhexlify"), chained \in BOOLEAN :
    \E obj \in IF ~chained THEN (IF Idle THEN Args ELSE {})
                ELSE IF Returned("binascii_hexlify") THEN {BytesObj(result.val)}
                ELSE {} :
      LET data == try_from_object(obj)
      IN  /\ fn' = name
          /\ arg' = obj
          /\ seed' = Missing
          /\ calls' = <<>>
          /\ prev' = IF chained
                     THEN [fn |-> make_module[fn], bytes |-> view.bytes,
                           seed |-> Missing, n |-> 1]
                     ELSE NoPrev
          /\ IF data.tag = "Err"
             THEN view' = NoView /\ result' = data
             ELSE /\ view' = Viewed(data.val.kind, with_ref(data.val))
                  /\ result' = binascii_unhexlify(with_ref(data.val))

\* crc32: the argument is a SerializedData and the seed an OptionalArg<u32>,
\* a fresh one or the checksum the previous crc32 returned
Crc32 ==
  \E chained \in BOOLEAN :
    \E obj \in CrcArgs, value \in IF ~chained THEN (IF Idle THEN Seeds ELSE {})
                  ELSE IF Returned("binascii_crc32") /\ prev.n < MaxChain
                  THEN {result.val}
                  ELSE {} :
      LET data == try_from_object(obj)
      IN  /\ fn' = "crc32"
          /\ arg' = obj
          /\ seed' = value
          /\ calls' = <<>>
          /\ prev' = IF chained
                     THEN [fn |-> make_module[fn], bytes |-> prev.bytes \o view.bytes,
                           seed |-> IF prev.n = 0 THEN seed ELSE prev.seed,
                           n |-> prev.n + 1]
                     ELSE NoPrev
          /\ IF data.tag = "Err"
             THEN view' = NoView /\ result' = data
             ELSE /\ view' = Viewed(data.val.kind, with_ref(data.val))
                  /\ result' = binascii_crc32(with_ref(data.val), value)

\* a2b_base64: the argument is a SerializedData, a fresh value or the bytes
\* the previous b2a_base64 returned
A2bBase64 ==
  \E chained \in BOOLEAN :
    \E s \in IF ~chained THEN (IF Idle THEN Args ELSE {})
              ELSE IF Returned("binascii_b2a_base64") THEN {BytesObj(result.val)}
              ELSE {} :
      LET data == try_from_object(s)
      IN  /\ fn' = "a2b_base64"
          /\ arg' = s
          /\ seed' = Missing
          /\ calls' = <<>>
          /\ prev' = IF chained
                     THEN [fn |-> make_module[fn], bytes |-> view.bytes,
                           seed |-> Missing, n |-> 1]
                     ELSE NoPrev
          /\ IF data.tag = "Err"
             THEN view' = NoView /\ result' = data
             ELSE /\ view' = Viewed(data.val.kind, with_ref(data.val))
                  /\ result' = binascii_a2b_base64(with_ref(data.val))

\* b2a_base64: the argument is a PyBytesLike
B2aBase64 ==
  \E obj \in IF Idle THEN Args ELSE {} :
    LET data == bytes_like_try_from_object(obj)
    IN  /\ fn' = "b2a_base64"
        /\ arg' = obj
        /\ seed' = Missing
        /\ calls' = <<>>
        /\ prev' = NoPrev
        /\ IF data.tag = "Err"
           THEN view' = NoView /\ result' = data
           ELSE /\ view' = Viewed(data.val.kind, with_ref(data.val))
                /\ result' = binascii_b2a_base64(with_ref(data.val))

\* the caller drops the result: nothing of a call outlives it
Discard ==
  /\ ~Idle
  /\ fn' = "none"
  /\ arg' = [type |-> "none", data |-> <<>>]
  /\ seed' = Missing
  /\ view' = NoView
  /\ calls' = <<>>
  /\ result' = NoResult
  /\ prev' = NoPrev

Next == Hexlify \/ Unhexlify \/ Crc32 \/ A2bBase64 \/ B2aBase64 \/ Discard

Spec == Init /\ [][Next]_vars

-----------------------------------------------------------------------------
(* What the claims are stated with. *)

HexlifyCall == fn \in Entries("binascii_hexlify")

UnhexlifyCall == fn \in Entries("binascii_unhexlify")

\* the entries whose argument is declared SerializedData, and PyBytesLike
SerializedDataEntries ==
  Entries("binascii_unhexlify") \cup Entries("binascii_crc32")
    \cup Entries("binascii_a2b_base64")

BytesLikeEntries == Entries("binascii_hexlify") \cup Entries("binascii_b2a_base64")

NonAsciiError ==
  Err("ValueError", <<"string argument should contain only ASCII characters">>)

OddLengthError == Err("ValueError", <<"Odd-length string">>)

InvalidDigitError == Err("ValueError", <<"Non-hexadecimal digit found">>)

NonAsciiText == arg.type = "str" /\ \E i \in 1..Len(arg.data) : arg.data[i] > 127

\* the digit of a nibble: '0'..'9', then lowercase 'a'..'f'
HexDigit(v) == IF v <= 9 THEN 48 + v ELSE 97 + (v - 10)

HexChars == (48..57) \cup (97..102) \cup (65..70)

\* the value of a hex digit of either case
HexValue(c) ==
  IF c \in 48..57 THEN c - 48 ELSE IF c \in 97..102 THEN c - 87 ELSE c - 55

AllHex(s) == \A i \in 1..Len(s) : s[i] \in HexChars

Base64Chars == (65..90) \cup (97..122) \cup (48..57) \cup {43, 47}

-----------------------------------------------------------------------------
(* The claims. *)

\* C1: unhexlify applied to what hexlify(b) returned succeeds and returns b,
\* for every byte sequence b.
C1_RoundTrip ==
  (UnhexlifyCall /\ prev.fn = "binascii_hexlify") => result = Ok(prev.bytes)

\* C2: hexlify(b) has length 2*len(b) and its bytes at 2i and 2i+1 are the
\* digits of the high and the low nibble of b[i], '0'..'9' and lowercase
\* 'a'..'f'.
C2_HexlifyDigits ==
  (HexlifyCall /\ view.ran) =>
    result = Ok([i \in 1..(2 * Len(view.bytes)) |->
                  IF i % 2 = 1 THEN HexDigit(view.bytes[(i + 1) \div 2] \div 16)
                  ELSE HexDigit(view.bytes[i \div 2] % 16)])

\* C3: on an even-length input of hex digits of either case unhexlify
\* succeeds and its i-th byte is (v(in[2i]) << 4) | v(in[2i+1]).
C3_UnhexlifyDecodes ==
  (UnhexlifyCall /\ view.ran /\ Len(view.bytes) % 2 = 0 /\ AllHex(view.bytes)) =>
    result = Ok([i \in 1..(Len(view.bytes) \div 2) |->
                  HexValue(view.bytes[2 * i - 1]) * 16 + HexValue(view.bytes[2 * i])])

C3_Witness ==
  /\ UnhexlifyCall
  /\ view.bytes = <<48, 48, 70, 70>>
  /\ result = Ok(<<0, 255>>)

\* C4: unhexlify fails exactly when its input has odd length (with the
\* odd-length error, whatever the bytes) or has even length and a byte that
\* is no hex digit (with the invalid-digit error), and a failure returns no
\* bytes.
C4_UnhexlifyFails ==
  (UnhexlifyCall /\ view.ran) =>
    /\ Len(view.bytes) % 2 = 1 => result = OddLengthError
    /\ (Len(view.bytes) % 2 = 0 /\ ~AllHex(view.bytes)) => result = InvalidDigitError
    /\ (Len(view.bytes) % 2 = 0 /\ AllHex(view.bytes)) => result.tag = "Ok"
    /\ result.tag # "Ok" => "val" \notin DOMAIN result

C4_Witness ==
  /\ UnhexlifyCall
  /\ view.bytes = <<48, 48, 122>>
  /\ result = OddLengthError

\* C5: a value given to an entry that takes a SerializedData is classified
\* in exactly one way: bytes as Bytes, a bytearray as Buffer, an ASCII text
\* as Ascii, each with the value's bytes handed on unchanged; a text with a
\* character above 127 fails with the non-ASCII error and a value of another
\* type with a type error naming the type, and then no codec runs.
C5_Classification ==
  fn \in SerializedDataEntries =>
    CASE arg.type = "bytes" -> view = Viewed("Bytes", arg.data)
      [] arg.type = "bytearray" -> view = Viewed("Buffer", arg.data)
      [] arg.type = "str" /\ ~NonAsciiText -> view = Viewed("Ascii", arg.data)
      [] NonAsciiText -> view = NoView /\ result = NonAsciiError
      [] OTHER -> /\ view = NoView
                  /\ result.tag = "Err"
                  /\ result.exc = "TypeError"
                  /\ result.msg[2] = arg.type

C5_Witness ==
  /\ fn \in SerializedDataEntries
  /\ arg = [type |-> "str", data |-> <<48, 255>>]
  /\ view = NoView
  /\ result = NonAsciiError

\* C6, as stated: a text with a non-ASCII character given to any entry
\* point fails with the non-ASCII error.
C6_NonAsciiAnyEntry == (~Idle /\ NonAsciiText) => result = NonAsciiError

\* C6, amended: a text with a non-ASCII character fails with the non-ASCII
\* error at unhexlify, a2b_hex, crc32 and a2b_base64, and with a type error
\* naming str at hexlify, b2a_hex and b2a_base64; no codec runs.
C6_NonAsciiByEntry ==
  (~Idle /\ NonAsciiText) =>
    /\ view = NoView
    /\ fn \in SerializedDataEntries => result = NonAsciiError
    /\ fn \in BytesLikeEntries =>
         result.tag = "Err" /\ result.exc = "TypeError" /\ result.msg[2] = "str"

C6_Witness ==
  /\ fn = "a2b_base64"
  /\ arg = [type |-> "str", data |-> <<233>>]
  /\ result = NonAsciiError

\* C7: crc32 chains: crc32(part2, crc32(part1, s)) = crc32(part1 + part2, s),
\* an omitted seed being 0; crc32 of no bytes is the seed, and
\* crc32("123456789") = 0xCBF43926.
C7_Crc32Chains ==
  (fn = "crc32" /\ view.ran) =>
    /\ result = binascii_crc32(prev.bytes \o view.bytes,
                               IF prev.n = 0 THEN seed ELSE prev.seed)
    /\ view.bytes = <<>> => result = Ok(IF seed = Missing THEN U32(0, 0) ELSE seed)
    /\ (view.bytes = <<49, 50, 51, 52, 53, 54, 55, 56, 57>> /\ seed = Missing) =>
         result = Ok(U32(52212, 14630))
    /\ (prev.bytes \o view.bytes = <<49, 50, 51, 52, 53, 54, 55, 56, 57>>
          /\ (IF prev.n = 0 THEN seed ELSE prev.seed) \in {Missing, U32(0, 0)}) =>
         result = Ok(U32(52212, 14630))

C7_Witness ==
  /\ fn = "crc32"
  /\ prev.fn = "binascii_crc32"
  /\ prev.seed = Missing
  /\ prev.bytes = <<49, 255>>
  /\ view.bytes = <<255, 49>>
  /\ result = binascii_crc32(<<49, 255, 255, 49>>, Missing)

\* C8, as stated: crc32 and b2a_base64 take bytes and bytearrays and never
\* a text, and unhexlify and a2b_base64 take all three kinds.
C8_ByteLikeOnly ==
  /\ (fn \in {"crc32", "b2a_base64"} /\ arg.type = "str") => ~view.ran
  /\ (fn \in {"unhexlify", "a2b_hex", "a2b_base64"}
        /\ arg.type \in {"bytes", "bytearray", "str"} /\ ~NonAsciiText) => view.ran

\* C8, amended: hexlify, b2a_hex and b2a_base64 take bytes and bytearrays
\* and never a text; crc32, unhexlify, a2b_hex and a2b_base64 take all
\* three kinds.
C8_KindsByEntry ==
  /\ (fn \in BytesLikeEntries /\ arg.type = "str") =>
       ~view.ran /\ result.tag = "Err" /\ result.exc = "TypeError"
  /\ (fn \in BytesLikeEntries /\ arg.type \in {"bytes", "bytearray"}) => view.ran
  /\ (fn \in SerializedDataEntries
        /\ arg.type \in {"bytes", "bytearray", "str"} /\ ~NonAsciiText) => view.ran

C8_Witness ==
  /\ fn = "crc32"
  /\ arg = [type |-> "str", data |-> <<49>>]
  /\ view = Viewed("Ascii", <<49>>)
  /\ result.tag = "Ok"

\* C9: b2a_base64(b) never fails and is unwrapped '='-padded text of the
\* standard alphabet, and a2b_base64 of it succeeds and returns b.
C9_Base64RoundTrip ==
  /\ (fn = "b2a_base64" /\ view.ran) =>
       /\ result.tag = "Ok"
       /\ Len(result.val) = 4 * ((Len(view.bytes) + 2) \div 3)
       /\ LET pad == (3 - (Len(view.bytes) % 3)) % 3
          IN  \A i \in 1..Len(result.val) :
                IF i > Len(result.val) - pad THEN result.val[i] = 61
                ELSE result.val[i] \in Base64Chars
  /\ (fn = "a2b_base64" /\ prev.fn = "binascii_b2a_base64") =>
       result = Ok(prev.bytes)

C9_Witness ==
  /\ fn = "a2b_base64"
  /\ prev.fn = "binascii_b2a_base64"
  /\ prev.bytes = <<0, 16, 131, 16>>
  /\ view.bytes = <<65, 66, 67, 68, 69, 65, 61, 61>>
  /\ result = Ok(prev.bytes)

\* C10: hexlify is total: every argument it passes to hex_nibble is in
\* 0..15, so the unreachable arm is never entered, and no addition in
\* hex_nibble leaves the range of u8.
C10_HexlifyTotal ==
  (HexlifyCall /\ view.ran) =>
    /\ Len(calls) = 2 * Len(view.bytes)
    /\ \A i \in 1..Len(calls) :
         /\ calls[i] \in 0..15
         /\ hex_nibble(calls[i]).tag = "Ok"
         /\ ~hex_nibble(calls[i]).add.overflow
    /\ result.tag = "Ok"
    /\ Len(result.val) = 2 * Len(view.bytes)

C10_Witness ==
  /\ HexlifyCall
  /\ view.bytes = <<255>>
  /\ calls = <<15, 15>>
  /\ result.tag = "Ok"

====
